---- MODULE Spec2Model ----
(***************************************************************************)
(* A model of NseAPI (src/nse_api.py): one requests.Session, a warm-up GET *)
(* at construction and five blocking query methods.  Every method is two   *)
(* steps: the GET it issues (..._call) and what it does with the response  *)
(* once the blocking call comes back (..._return).  The remote server is   *)
(* the environment: the response is drawn from a bounded set of statuses   *)
(* and bodies, or the transport fails and requests raises.                 *)
(*                                                                         *)
(* Text that the code transforms (upper(), quote(), CSV cells) is a        *)
(* sequence of one-character strings; text that is only copied is a        *)
(* string.  A JSON object is a function from its keys; Python's None is    *)
(* the string None.                                                        *)
(***************************************************************************)
EXTENDS Integers, Sequences, FiniteSets, TLC

VARIABLES
    pc,        \* "new" | "idle" | "awaiting" | "failed"
    client,    \* number of requests.Session objects created (self.client)
    sent,      \* every GET issued, in order
    calls,     \* number of public method calls started
    cur,       \* the call in progress: method, arguments, url
    response,  \* what came back for the call in progress
    outcome,   \* how the last finished call ended
    printed    \* what print() has written during the last call

vars == <<pc, client, sent, calls, cur, response, outcome, printed>>

\* ------------------------------------------------------------------ bounds

MaxCalls == 2
MaxRows == 2
MaxCsvRows == 2

\* ------------------------------------------------------------ text helpers

None == "None"

RECURSIVE Concat(_)
Concat(ss) == IF ss = <<>> THEN <<>> ELSE Head(ss) \o Concat(Tail(ss))

\* str.upper() on the characters the inputs use
UpperChar(c) ==
    CASE c = "n" -> "N"
      [] c = "f" -> "F"
      [] c = "t" -> "T"
      [] c = "c" -> "C"
      [] OTHER -> c

Upper(s) == [i \in 1..Len(s) |-> UpperChar(s[i])]

\* urllib.parse.quote: letters and digits stay, anything else is %XX
QuoteChar(c) ==
    CASE c = " " -> <<"%", "2", "0">>
      [] c = "&" -> <<"%", "2", "6">>
      [] OTHER -> <<c>>

Quote(s) == Concat([i \in 1..Len(s) |-> QuoteChar(s[i])])

\* --------------------------------------------------------------- requests

HEADERS ==
    [ua |-> "Mozilla/5.0 (Windows NT 10.0; Win64; x64) AppleWebKit/537.36 (KHTML, like Gecko) Chrome/93.0.4577.82 Safari/537.36 Edg/93.0.961.52",
     xrw |-> "XMLHttpRequest"]

NoTimeout == 0
HistTimeout == 1000

\* a faulty variant: the GET is sent a second time
MutGetRetry(log, endpoint, timeout) ==
    LET r == [endpoint |-> endpoint, headers |-> HEADERS, session |-> client, timeout |-> timeout]
    IN  Append(Append(log, r), r)

\* self.client.get(url, headers=self.HEADERS[, timeout=...]): one GET on the
\* client's session; the log keeps the endpoint, not the query string
ClientGet(log, endpoint, timeout) ==
    Append(log, [endpoint |-> endpoint, headers |-> HEADERS,
                 session |-> client, timeout |-> timeout])

NoCall == [op |-> "none"]
NoResponse == [status |-> 0]
NoOutcome == [kind |-> "none"]

\* requests raising inside self.client.get: nothing catches it
ConnectionError == [kind |-> "raise", exc |-> "ConnectionError", msg |-> <<"transport">>]
\* response.json() on a body that is not JSON
JSONDecodeError == [kind |-> "raise", exc |-> "JSONDecodeError", msg |-> <<"Expecting value">>]
KeyError(k) == [kind |-> "raise", exc |-> "KeyError", msg |-> <<k>>]
Return(v) == [kind |-> "return", value |-> v]
ReturnNone == [kind |-> "return_none"]

Statuses == {200, 404, 503}

\* for the methods that never read the status
SomeStatuses == {200, 404}

TextBodies == { [fmt |-> "text", text |-> ""], [fmt |-> "text", text |-> "<html>Access Denied</html>"] }

IsJson(body) == body.fmt = "json"

\* the transport failed: the exception leaves the method
Propagate ==
    /\ pc = "awaiting"
    /\ response' = NoResponse
    /\ outcome' = ConnectionError
    /\ pc' = "idle"
    /\ UNCHANGED <<client, sent, calls, cur, printed>>

Finish(resp, out) ==
    /\ response' = resp
    /\ outcome' = out
    /\ pc' = "idle"
    /\ UNCHANGED <<client, sent, calls, cur>>

Start(endpoint, timeout) ==
    /\ pc = "idle"
    /\ calls < MaxCalls
    /\ calls' = calls + 1
    /\ sent' = ClientGet(sent, endpoint, timeout)
    /\ response' = NoResponse
    /\ outcome' = NoOutcome
    /\ printed' = <<>>
    /\ pc' = "awaiting"
    /\ UNCHANGED client

\* ------------------------------------------------------------ construction

Init ==
    /\ pc = "new"
    /\ client = 0
    /\ sent = <<>>
    /\ calls = 0
    /\ cur = NoCall
    /\ response = NoResponse
    /\ outcome = NoOutcome
    /\ printed = <<>>

\* NseAPI.__init__: create the session, then the warm-up GET; its response is
\* not looked at, and a transport error leaves no client behind
init ==
    /\ pc = "new"
    /\ client' = client + 1
    /\ sent' = Append(sent, [endpoint |-> "live-equity-market", headers |-> HEADERS,
                             session |-> client + 1, timeout |-> NoTimeout])
    /\ \E ok \in BOOLEAN :
          /\ pc' = IF ok THEN "idle" ELSE "failed"
          /\ outcome' = IF ok THEN NoOutcome ELSE ConnectionError
    /\ UNCHANGED <<calls, cur, response, printed>>

\* ------------------------------------------------------------- get_indices

Categories == {"A", "B"}
IndexSymbols == {"X", "Y"}

SeqsUpTo(S, n) == UNION { [1..k -> S] : k \in 0..n }

\* orders of subsets of S, without repetition (a JSON object's keys)
KeyOrders(S) == { s \in SeqsUpTo(S, Cardinality(S)) : \A i, j \in 1..Len(s) : i # j => s[i] # s[j] }

\* an equity-master body: category -> list of symbols, in the body's key order
MasterBodies ==
    { [fmt |-> "json", keys |-> b[1], val |-> b[2]] :
        b \in { kv \in KeyOrders(Categories) \X
                        UNION { [D -> SeqsUpTo(IndexSymbols, MaxRows)] : D \in SUBSET Categories } :
                 DOMAIN kv[2] = { kv[1][i] : i \in 1..Len(kv[1]) } } }

\* a faulty variant: the categories are taken in the reverse order
MutFlattenReversed(keys, val) ==
    Concat([i \in 1..Len(keys) |-> val[keys[Len(keys) + 1 - i]]])

\* [symbol for symbols in response.keys() for symbol in response[symbols]]
Flatten(keys, val) == Concat([i \in 1..Len(keys) |-> val[keys[i]]])

get_indices_call ==
    /\ cur' = [op |-> "get_indices"]
    /\ Start("equity-master", NoTimeout)

get_indices_return ==
    /\ pc = "awaiting"
    /\ cur.op = "get_indices"
    /\ \E st \in SomeStatuses :
          \/ \E b \in MasterBodies :
                Finish([status |-> st, body |-> b], Return(Flatten(b.keys, b.val)))
          \/ \E b \in TextBodies :
                Finish([status |-> st, body |-> b], JSONDecodeError)
    /\ UNCHANGED printed

\* ---------------------------------------------------------- get_all_stocks

Empty == [k \in {} |-> 0]

Range(s) == { s[i] : i \in 1..Len(s) }

\* dict.get(k): the value, or None
Get(obj, k) == IF k \in DOMAIN obj THEN obj[k] ELSE None

\* dict.get(k, default)
GetOr(obj, k, default) == IF k \in DOMAIN obj THEN obj[k] ELSE default

\* the first key of `keys` that `obj` lacks, as a one-element sequence (or <<>>)
FirstMissing(obj, keys) ==
    LET miss == SelectSeq(keys, LAMBDA k : k \notin DOMAIN obj)
    IN  IF miss = <<>> THEN <<>> ELSE <<Head(miss)>>

NF == <<"N", "F">>
nf == <<"n", "f">>
TC == <<"T", "C">>

\* the index (or stock) names a caller passes
Names == { nf, NF, <<"n", " ", "f">> }

\* the symbols a caller passes
Symbols == { nf, <<"T", "&", "C">> }

WithCompany == [isin |-> "INE1", companyName |-> "Tata Co"]
NoCompany == [isin |-> "INE2"]

\* rows of the constituent listing, as little as get_all_stocks reads of them
StockRows ==
    { [symbol |-> sy, meta |-> WithCompany] : sy \in {NF, nf, TC} }
    \cup { [symbol |-> TC], [symbol |-> TC, meta |-> NoCompany], [meta |-> WithCompany] }

ListingBodies ==
    { [fmt |-> "json", obj |-> [data |-> rows]] : rows \in SeqsUpTo(StockRows, MaxRows) }
    \cup { [fmt |-> "json", obj |-> [timestamp |-> "02-Nov-2026 15:30:00"]] }

\* a faulty variant: the filter compares with the index as the caller spelt it
MutKeepRawCase(stock, index) == stock.symbol # index

\* the comprehension's filter, stock['symbol'] != index.upper()
Keep(stock, index) == stock.symbol # Upper(index)

\* one element of results
StockRecord(stock) ==
    [stock_symbol |-> stock.symbol,
     company_name |-> Get(GetOr(stock, "meta", Empty), "companyName")]

\* get_all_stocks from the response on; the status is never read
AllStocks(index, body) ==
    IF ~IsJson(body) THEN JSONDecodeError
    ELSE IF "data" \notin DOMAIN body.obj THEN KeyError("data")
    ELSE LET rows == body.obj.data
             kept == SelectSeq(rows, LAMBDA r : Keep(r, index))
         IN  IF \E i \in 1..Len(rows) : "symbol" \notin DOMAIN rows[i]
             THEN KeyError("symbol")
             ELSE Return([i \in 1..Len(kept) |-> StockRecord(kept[i])])

get_all_stocks_call ==
    /\ \E index \in Names :
          cur' = [op |-> "get_all_stocks", index |-> index,
                  url |-> [path |-> "equity-stockIndices", index |-> Quote(Upper(index))]]
    /\ Start("equity-stockIndices", NoTimeout)

get_all_stocks_return ==
    /\ pc = "awaiting"
    /\ cur.op = "get_all_stocks"
    /\ \E st \in SomeStatuses, b \in ListingBodies \cup TextBodies :
          Finish([status |-> st, body |-> b], AllStocks(cur.index, b))
    /\ UNCHANGED printed

\* -------------------------------------------------------------- index_data

\* the keys index_data reads of a datum, in the order it reads them
DatumKeys ==
    <<"symbol", "open", "dayHigh", "dayLow", "lastPrice", "previousClose", "change",
      "pChange", "yearHigh", "yearLow", "totalTradedVolume", "totalTradedValue",
      "perChange365d", "perChange30d">>

\* a complete datum; the numbers differ from key to key
Datum(sy, v) ==
    [symbol |-> sy, open |-> v + 1, dayHigh |-> v + 2, dayLow |-> v + 3, lastPrice |-> v + 4,
     previousClose |-> v + 5, change |-> v + 6, pChange |-> v + 7, yearHigh |-> v + 8,
     yearLow |-> v + 9, totalTradedVolume |-> v + 10, totalTradedValue |-> v + 11,
     perChange365d |-> v + 12, perChange30d |-> v + 13]

Without(obj, k) == [x \in DOMAIN obj \ {k} |-> obj[x]]

With(obj, k, v) == [x \in DOMAIN obj \cup {k} |-> IF x = k THEN v ELSE obj[x]]

Data ==
    { Datum(NF, 100),
      With(Datum(NF, 100), "meta", WithCompany),
      With(Datum(TC, 200), "meta", WithCompany),
      With(Datum(TC, 200), "meta", NoCompany),
      Datum(TC, 200),
      Without(With(Datum(TC, 300), "meta", WithCompany), "open"),
      Without(With(Datum(TC, 300), "meta", WithCompany), "perChange30d") }

Timestamps == {"02-Nov-2026 15:30:00"}

SnapshotBodies ==
    { [fmt |-> "json", obj |-> [data |-> rows, timestamp |-> ts]] :
        rows \in SeqsUpTo(Data, MaxRows), ts \in Timestamps }
    \cup { [fmt |-> "json", obj |-> [data |-> rows]] : rows \in SeqsUpTo(Data, 1) }
    \cup { [fmt |-> "json", obj |-> [timestamp |-> ts]] : ts \in Timestamps }

\* bodies that come with an error status
ErrorBodies ==
    TextBodies
    \cup { [fmt |-> "json", obj |-> [showMessage |-> "No data found"]],
           [fmt |-> "json", obj |-> [data |-> <<>>, timestamp |-> "02-Nov-2026 15:30:00"]] }

\* temp_dict, before company_name is added
TempDict(datum, last_updated) ==
    [symbol |-> datum.symbol, open |-> datum.open, dayHigh |-> datum.dayHigh,
     dayLow |-> datum.dayLow, lastPrice |-> datum.lastPrice,
     previousClose |-> datum.previousClose, change |-> datum.change,
     pChange |-> datum.pChange, totalTradedVolume |-> datum.totalTradedVolume,
     totalTradedValue |-> datum.totalTradedValue, perChange365d |-> datum.perChange365d,
     perChange30d |-> datum.perChange30d, last_updated_at |-> last_updated]
    @@ ("52W_High" :> datum.yearHigh) @@ ("52W_Low" :> datum.yearLow)

\* the key whose lookup fails for datum number i (a one-element sequence), or <<>>
DatumFails(datum, i) ==
    LET miss == FirstMissing(datum, DatumKeys)
    IN  IF miss # <<>> THEN miss
        ELSE IF i # 1 /\ "meta" \notin DOMAIN datum THEN <<"meta">>
        ELSE <<>>

\* a faulty variant: the first element gets a company_name too
MutElementAllNamed(datum, i, last_updated) ==
    With(TempDict(datum, last_updated), "company_name", Get(GetOr(datum, "meta", Empty), "companyName"))

\* one turn of the loop: the dict appended for datum number i (1-based here)
Element(datum, i, last_updated) ==
    IF i # 1
    THEN With(TempDict(datum, last_updated), "company_name", Get(datum.meta, "companyName"))
    ELSE TempDict(datum, last_updated)

\* index_data from the response on
IndexData(response_) ==
    IF response_.status # 200 THEN ReturnNone
    ELSE IF ~IsJson(response_.body) THEN JSONDecodeError
    ELSE LET j == response_.body.obj IN
         IF "timestamp" \notin DOMAIN j THEN KeyError("timestamp")
         ELSE IF "data" \notin DOMAIN j THEN KeyError("data")
         ELSE LET bad == SelectSeq([i \in 1..Len(j.data) |-> DatumFails(j.data[i], i)],
                                   LAMBDA m : m # <<>>)
              IN  IF bad # <<>> THEN KeyError(Head(bad)[1])
                  ELSE Return([i \in 1..Len(j.data) |-> Element(j.data[i], i, j.timestamp)])

index_data_call ==
    /\ \E stock_index \in Symbols :
          cur' = [op |-> "index_data", stock_index |-> stock_index,
                  url |-> [path |-> "equity-stockIndices", index |-> stock_index]]
    /\ Start("equity-stockIndices", NoTimeout)

index_data_return ==
    /\ pc = "awaiting"
    /\ cur.op = "index_data"
    /\ \E r \in ([status : {200}, body : SnapshotBodies \cup TextBodies]
                 \cup [status : Statuses \ {200}, body : ErrorBodies]) :
          Finish(r, IndexData(r))
    /\ UNCHANGED printed

\* ---------------------------------------------------------- get_stock_data

Absent == [absent |-> TRUE]

\* a JSON object from its sections, the absent ones left out
Object(sections) ==
    [k \in { x \in DOMAIN sections : sections[x] # Absent } |-> sections[k]]

FullInfo == [symbol |-> "TCS", companyName |-> "Tata Co", industry |-> "IT"]

Infos ==
    { Absent, Empty, FullInfo, Without(FullInfo, "industry"), Without(FullInfo, "symbol"),
      Without(FullInfo, "companyName") }

FullMetadata == [listingDate |-> "25-Aug-2004", lastUpdateTime |-> "02-Nov-2026 15:30:00"]

Metadatas ==
    { Absent, FullMetadata, Without(FullMetadata, "listingDate"),
      Without(FullMetadata, "lastUpdateTime") }

\* prices are in thousandths: 1236 is 1.236
FullPriceInfo(change) ==
    [open |-> 3400000, lastPrice |-> 3410500, previousClose |-> 3409264,
     intraDayHighLow |-> [min |-> 3390000, max |-> 3420000],
     change |-> change, pChange |-> 36,
     weekHighLow |-> [min |-> 3000000, minDate |-> "01-Jan-2026",
                      max |-> 3600000, maxDate |-> "01-Jun-2026"]]

PriceInfos ==
    { Absent, FullPriceInfo(1236), FullPriceInfo(-1234),
      Without(FullPriceInfo(1236), "open"),
      Without(FullPriceInfo(1236), "intraDayHighLow"),
      With(FullPriceInfo(1236), "intraDayHighLow", [max |-> 3420000]),
      Without(FullPriceInfo(1236), "weekHighLow"),
      With(FullPriceInfo(1236), "weekHighLow", [min |-> 3000000, max |-> 3600000, maxDate |-> "01-Jun-2026"]),
      Without(FullPriceInfo(1236), "pChange") }

FullPreOpen == [totalTradedVolume |-> 1200, totalBuyQuantity |-> 300, totalSellQuantity |-> 500]

PreOpens == { Absent, FullPreOpen, Without(FullPreOpen, "totalSellQuantity") }

QuoteBodies ==
    { [fmt |-> "json",
       obj |-> Object([info |-> i, metadata |-> m, priceInfo |-> p, preOpenMarket |-> o])] :
        i \in Infos, m \in Metadatas, p \in PriceInfos, o \in PreOpens }

\* round(x, 2) on thousandths (no input ends in 5)
Round2(x) == LET q == x \div 10 IN (IF x % 10 >= 5 THEN q + 1 ELSE q) * 10

\* the subscripts final_dict evaluates, in order
StockPaths ==
    << <<"info", "symbol">>, <<"info", "companyName">>, <<"metadata", "listingDate">>,
       <<"priceInfo", "open">>, <<"priceInfo", "lastPrice">>, <<"priceInfo", "previousClose">>,
       <<"priceInfo", "intraDayHighLow", "max">>, <<"priceInfo", "intraDayHighLow", "min">>,
       <<"priceInfo", "change">>, <<"priceInfo", "pChange">>,
       <<"priceInfo", "weekHighLow", "maxDate">>, <<"priceInfo", "weekHighLow", "max">>,
       <<"priceInfo", "weekHighLow", "minDate">>, <<"priceInfo", "weekHighLow", "min">>,
       <<"preOpenMarket", "totalTradedVolume">>, <<"preOpenMarket", "totalBuyQuantity">>,
       <<"preOpenMarket", "totalSellQuantity">>, <<"metadata", "lastUpdateTime">> >>

\* the key at which result[p1][p2]... raises KeyError (a one-element sequence), or <<>>
RECURSIVE PathMiss(_, _)
PathMiss(obj, path) ==
    IF path = <<>> THEN <<>>
    ELSE IF Head(path) \notin DOMAIN obj THEN <<Head(path)>>
    ELSE PathMiss(obj[Head(path)], Tail(path))

FinalDict(result) ==
    [symbol |-> result.info.symbol,
     company_name |-> result.info.companyName,
     industry |-> Get(result.info, "industry"),
     listingDate |-> result.metadata.listingDate,
     open_price |-> result.priceInfo.open,
     last_price |-> result.priceInfo.lastPrice,
     previous_close |-> result.priceInfo.previousClose,
     high_price |-> result.priceInfo.intraDayHighLow.max,
     low_price |-> result.priceInfo.intraDayHighLow.min,
     change |-> Round2(result.priceInfo.change),
     pChange |-> Round2(result.priceInfo.pChange),
     total_traded_volume |-> result.preOpenMarket.totalTradedVolume,
     total_buy_quantity |-> result.preOpenMarket.totalBuyQuantity,
     total_sell_quantity |-> result.preOpenMarket.totalSellQuantity,
     last_update_time |-> result.metadata.lastUpdateTime]
    @@ ("52w_high_date" :> result.priceInfo.weekHighLow.maxDate)
    @@ ("52w_high" :> result.priceInfo.weekHighLow.max)
    @@ ("52w_low_date" :> result.priceInfo.weekHighLow.minDate)
    @@ ("52w_low" :> result.priceInfo.weekHighLow.min)

\* truthiness of response.json().get("info")
Truthy(obj, k) == k \in DOMAIN obj /\ DOMAIN obj[k] # {}

\* a faulty variant: a missing section gives a record with fewer fields
MutStockDataSkipMissing(response_) ==
    IF response_.status # 200 THEN ReturnNone
    ELSE IF ~IsJson(response_.body) THEN JSONDecodeError
    ELSE IF ~Truthy(response_.body.obj, "info") THEN ReturnNone
    ELSE LET bad == SelectSeq([i \in 1..Len(StockPaths) |-> PathMiss(response_.body.obj, StockPaths[i])],
                              LAMBDA m : m # <<>>)
         IN  IF bad # <<>> THEN Return([symbol |-> Get(response_.body.obj.info, "symbol")])
             ELSE Return(FinalDict(response_.body.obj))

\* a faulty variant: the body is parsed before the status is looked at
MutStockDataParseFirst(response_) ==
    IF ~IsJson(response_.body) THEN JSONDecodeError
    ELSE IF response_.status # 200 \/ ~Truthy(response_.body.obj, "info") THEN ReturnNone
    ELSE LET bad == SelectSeq([i \in 1..Len(StockPaths) |-> PathMiss(response_.body.obj, StockPaths[i])],
                              LAMBDA m : m # <<>>)
         IN  IF bad # <<>> THEN KeyError(Head(bad)[1])
             ELSE Return(FinalDict(response_.body.obj))

\* a faulty variant: "info" is subscripted without the .get() test
MutStockDataInfoRequired(response_) ==
    IF response_.status # 200 THEN ReturnNone
    ELSE IF ~IsJson(response_.body) THEN JSONDecodeError
    ELSE LET bad == SelectSeq([i \in 1..Len(StockPaths) |-> PathMiss(response_.body.obj, StockPaths[i])],
                              LAMBDA m : m # <<>>)
         IN  IF bad # <<>> THEN KeyError(Head(bad)[1])
             ELSE Return(FinalDict(response_.body.obj))

\* get_stock_data from the response on: the status and "info" test, then final_dict
StockData(response_) ==
    IF response_.status # 200 THEN ReturnNone
    ELSE IF ~IsJson(response_.body) THEN JSONDecodeError
    ELSE IF ~Truthy(response_.body.obj, "info") THEN ReturnNone
    ELSE LET bad == SelectSeq([i \in 1..Len(StockPaths) |-> PathMiss(response_.body.obj, StockPaths[i])],
                              LAMBDA m : m # <<>>)
         IN  IF bad # <<>> THEN KeyError(Head(bad)[1])
             ELSE Return(FinalDict(response_.body.obj))

get_stock_data_call ==
    /\ \E symbol \in Symbols :
          cur' = [op |-> "get_stock_data", symbol |-> symbol,
                  url |-> [path |-> "quote-equity", symbol |-> symbol]]
    /\ Start("quote-equity", NoTimeout)

get_stock_data_return ==
    /\ pc = "awaiting"
    /\ cur.op = "get_stock_data"
    /\ \E r \in ([status : {200}, body : QuoteBodies \cup TextBodies]
                 \cup [status : Statuses \ {200}, body : ErrorBodies \cup {[fmt |-> "json", obj |-> [info |-> FullInfo]]}]) :
          Finish(r, StockData(r))
    /\ UNCHANGED printed

\* ----------------------------------------------------- get_historical_data

DigitChars == <<"0", "1", "2", "3", "4", "5", "6", "7", "8", "9">>

IsDigit(c) == \E d \in 1..10 : DigitChars[d] = c

DigitVal(c) == (CHOOSE d \in 1..10 : DigitChars[d] = c) - 1

IsDigits(s) == s # <<>> /\ \A i \in 1..Len(s) : IsDigit(s[i])

RECURSIVE ToInt(_)
ToInt(s) == IF s = <<>> THEN 0 ELSE ToInt(SubSeq(s, 1, Len(s) - 1)) * 10 + DigitVal(s[Len(s)])

RECURSIVE ToChars(_)
ToChars(n) == IF n < 10 THEN <<DigitChars[n + 1]>> ELSE ToChars(n \div 10) \o <<DigitChars[(n % 10) + 1]>>

RECURSIVE Split(_, _)
Split(s, sep) ==
    IF \A i \in 1..Len(s) : s[i] # sep THEN <<s>>
    ELSE LET k == CHOOSE i \in 1..Len(s) : s[i] = sep /\ \A j \in 1..(i - 1) : s[j] # sep
         IN  <<SubSeq(s, 1, k - 1)>> \o Split(SubSeq(s, k + 1, Len(s)), sep)

\* the values of a DataFrame cell
NaN == [t |-> "nan"]
Num(v) == [t |-> "num", v |-> v]
Str(s) == [t |-> "str", s |-> s]
Date(y, m, d) == [t |-> "date", y |-> y, m |-> m, d |-> d]

\* read_csv's default na_values, as far as the inputs go
IsNA(cell) == cell = <<>> \/ cell = <<"N", "A">>

\* read_csv(thousands=","): the separators are dropped before the digits are read
StripThousands(cell) == SelectSeq(cell, LAMBDA c : c # ",")

\* read_csv's type inference for one column: numeric when every cell that is not
\* NA reads as a number, otherwise the cells stay text
InferColumn(cells) ==
    IF \A i \in 1..Len(cells) : IsNA(cells[i]) \/ IsDigits(StripThousands(cells[i]))
    THEN [i \in 1..Len(cells) |->
            IF IsNA(cells[i]) THEN NaN ELSE Num(ToInt(StripThousands(cells[i])))]
    ELSE [i \in 1..Len(cells) |-> IF IsNA(cells[i]) THEN NaN ELSE Str(cells[i])]

\* a faulty variant: VWAP is left as read_csv gave it
MutToNumericKeep(v) == v

\* pd.to_numeric(column, errors='coerce'): text is read without thousands
\* separators, and what does not read becomes NaN
ToNumeric(v) ==
    IF v.t = "str" THEN (IF IsDigits(v.s) THEN Num(ToInt(v.s)) ELSE NaN) ELSE v

Months == <<"Jan", "Feb", "Mar", "Apr", "May", "Jun", "Jul", "Aug", "Sep", "Oct", "Nov", "Dec">>

DaysIn == <<31, 28, 31, 30, 31, 30, 31, 31, 30, 31, 30, 31>>

MonthChars(name) ==
    CASE name = "Jan" -> <<"J", "a", "n">>
      [] name = "Feb" -> <<"F", "e", "b">>
      [] name = "Mar" -> <<"M", "a", "r">>
      [] name = "Apr" -> <<"A", "p", "r">>
      [] name = "May" -> <<"M", "a", "y">>
      [] name = "Jun" -> <<"J", "u", "n">>
      [] name = "Jul" -> <<"J", "u", "l">>
      [] name = "Aug" -> <<"A", "u", "g">>
      [] name = "Sep" -> <<"S", "e", "p">>
      [] name = "Oct" -> <<"O", "c", "t">>
      [] name = "Nov" -> <<"N", "o", "v">>
      [] name = "Dec" -> <<"D", "e", "c">>

\* a faulty variant: day and month change places
MutParseDateMonthFirst(v) ==
    IF v.t # "str" THEN <<>>
    ELSE LET p == Split(v.s, "-") IN
         IF Len(p) # 3 \/ ~IsDigits(p[1]) \/ Len(p[1]) > 2 \/ ~IsDigits(p[3]) \/ Len(p[3]) # 4
            \/ ~\E m \in 1..12 : MonthChars(Months[m]) = p[2]
         THEN <<>>
         ELSE LET m == CHOOSE m \in 1..12 : MonthChars(Months[m]) = p[2]
                  d == ToInt(p[1])
              IN  IF d < 1 \/ d > DaysIn[m] THEN <<>> ELSE <<Date(ToInt(p[3]), d, m)>>

\* strptime(text, "%d-%b-%Y"): <<date>> or <<>> when the text does not match
ParseDate(v) ==
    IF v.t # "str" THEN <<>>
    ELSE LET p == Split(v.s, "-") IN
         IF Len(p) # 3 \/ ~IsDigits(p[1]) \/ Len(p[1]) > 2 \/ ~IsDigits(p[3]) \/ Len(p[3]) # 4
            \/ ~\E m \in 1..12 : MonthChars(Months[m]) = p[2]
         THEN <<>>
         ELSE LET m == CHOOSE m \in 1..12 : MonthChars(Months[m]) = p[2]
                  d == ToInt(p[1])
              IN  IF d < 1 \/ d > DaysIn[m] THEN <<>> ELSE <<Date(ToInt(p[3]), m, d)>>

\* the names df.columns is set to
Columns ==
    <<"DATE", "SERIES", "OPEN", "HIGH", "LOW", "PREV_CLOSE", "LTP", "CLOSE", "VWAP",
      "52W_H", "52W_L", "VOLUME", "VALUE", "NO_OF_TRADES">>

NumericColumns == 3..14

ColumnIndex(name) == CHOOSE k \in 1..Len(Columns) : Columns[k] = name

\* the header the exchange sends, and another one
NseHeader ==
    <<"Date ", "series ", "OPEN ", "HIGH ", "LOW ", "PREV. CLOSE ", "ltp ", "close ", "vwap ",
      "52W H ", "52W L ", "VOLUME ", "VALUE ", "No of trades ">>

OtherHeader == [k \in 1..14 |-> "column"]

D1 == <<"0", "1", "-", "J", "a", "n", "-", "2", "0", "2", "3">>
D2 == <<"2", "8", "-", "F", "e", "b", "-", "2", "0", "2", "3">>
DIso == <<"2", "0", "2", "3", "-", "0", "1", "-", "0", "1">>
D30Feb == <<"3", "0", "-", "F", "e", "b", "-", "2", "0", "2", "3">>

DateCells == {D1, D2, DIso, D30Feb}

\* numeric cells: plain, with a thousands separator, malformed, empty
Cells == { <<"1", "0", "0">>, <<"1", ",", "2", "3", "4">>, <<"-">>, <<>> }

EQ == <<"E", "Q">>

\* a well-formed row: its date, EQ, and a plain number in every numeric column
BaseRow(date) == [k \in 1..14 |-> IF k = 1 THEN date ELSE IF k = 2 THEN EQ ELSE ToChars(100 + k)]

AlternatingDate(i) == IF i % 2 = 1 THEN D2 ELSE D1

CsvBodies ==
    { [fmt |-> "csv", header |-> h, rows |-> [i \in 1..Len(ds) |-> BaseRow(ds[i])]] :
        h \in {NseHeader, OtherHeader}, ds \in SeqsUpTo(DateCells, MaxCsvRows) }
    \cup { [fmt |-> "csv", header |-> NseHeader,
            rows |-> [i \in 1..Len(cs) |->
                        [BaseRow(AlternatingDate(i)) EXCEPT ![c] = cs[i]]]] :
            c \in NumericColumns, cs \in SeqsUpTo(Cells, MaxCsvRows) \ {<<>>} }
    \cup { [fmt |-> "csv", header |-> SubSeq(NseHeader, 1, n),
            rows |-> <<SubSeq(BaseRow(D1), 1, n)>>] : n \in {13} }
    \cup { [fmt |-> "csv", header |-> NseHeader \o <<"extra ">>,
            rows |-> <<BaseRow(D1) \o <<ToChars(7)>> >>] }

MessageBodies ==
    { [fmt |-> "json", obj |-> [showMessage |-> "No data found"]],
      [fmt |-> "json", obj |-> [error |-> "bad request"]] }

\* pd.read_csv: <<[header, rows]>>, or <<>> for EmptyDataError.  A body that is
\* not CSV is read as one: a line of JSON or HTML without commas is one column
ReadCsv(body) ==
    CASE body.fmt = "csv" -> <<[header |-> body.header, rows |-> body.rows]>>
      [] body.fmt = "json" -> <<[header |-> [k \in 1..(IF DOMAIN body.obj = {} THEN 1 ELSE Cardinality(DOMAIN body.obj)) |-> "json"], rows |-> <<>>]>>
      [] body.fmt = "text" -> IF body.text = "" THEN <<>> ELSE <<[header |-> <<body.text>>, rows |-> <<>>]>>

\* the frame after df.columns = [...], df.insert(0, "SYMBOL", symbol), the
\* date conversion and the VWAP coercion; <<>> when a date does not parse
Frame(symbol, csv) ==
    LET n == Len(csv.rows)
        col == [k \in 1..14 |-> InferColumn([i \in 1..n |-> csv.rows[i][k]])]
        dates == [i \in 1..n |-> ParseDate(col[1][i])]
        cell(i, name) ==
            IF name = "SYMBOL" THEN Str(symbol)
            ELSE IF name = "DATE" THEN dates[i][1]
            ELSE IF name = "VWAP" THEN ToNumeric(col[ColumnIndex(name)][i])
            ELSE col[ColumnIndex(name)][i]
    IN  IF \E i \in 1..n : dates[i] = <<>> THEN <<>>
        ELSE <<[columns |-> <<"SYMBOL">> \o Columns,
                rows |-> [i \in 1..n |-> [name \in Range(Columns) \cup {"SYMBOL"} |-> cell(i, name)]]]>>

\* the except clause: raise Exception(f"Error: {response.json().get('showMessage')}")
Except(body) ==
    IF ~IsJson(body) THEN JSONDecodeError
    ELSE [kind |-> "raise", exc |-> "Exception", msg |-> <<"Error: ", Get(body.obj, "showMessage")>>]

\* get_historical_data from the response on
HistoricalData(symbol, response_) ==
    IF response_.status # 200 THEN ReturnNone
    ELSE LET csv == ReadCsv(response_.body) IN
         IF csv = <<>> \/ Len(csv[1].header) # Len(Columns) THEN Except(response_.body)
         ELSE LET df == Frame(symbol, csv[1])
              IN  IF df = <<>> THEN Except(response_.body) ELSE Return(df[1])

\* print(response.text) in the else branch
Printed(out, response_) ==
    IF response_.status # 200 THEN Append(out, response_.body) ELSE out

StartDate == "2023-01-01"
EndDate == "2023-01-31"

get_historical_data_call ==
    /\ \E symbol \in Symbols :
          cur' = [op |-> "get_historical_data", symbol |-> symbol,
                  url |-> [path |-> "historical/cm/equity", symbol |-> Quote(Upper(symbol)),
                           series |-> "[\"EQ\"]", from |-> StartDate, to |-> EndDate, csv |-> "true"]]
    /\ Start("historical/cm/equity", HistTimeout)

get_historical_data_return ==
    /\ pc = "awaiting"
    /\ cur.op = "get_historical_data"
    /\ \E r \in ([status : {200}, body : CsvBodies \cup MessageBodies \cup TextBodies]
                 \cup [status : Statuses \ {200}, body : ErrorBodies]) :
          /\ Finish(r, HistoricalData(cur.symbol, r))
          /\ printed' = Printed(printed, r)

\* -------------------------------------------------------------------- spec

Next ==
    \/ init
    \/ get_indices_call
    \/ get_indices_return
    \/ get_all_stocks_call
    \/ get_all_stocks_return
    \/ index_data_call
    \/ index_data_return
    \/ get_stock_data_call
    \/ get_stock_data_return
    \/ get_historical_data_call
    \/ get_historical_data_return
    \/ Propagate

Spec == Init /\ [][Next]_vars

\* ------------------------------------------------------------------ claims

\* a call of method op has come back with a response
Done(op) == pc = "idle" /\ cur.op = op /\ response.status # 0

Contains(msg, text) == \E i \in 1..Len(msg) : msg[i] = text

\* C1: index_data, get_stock_data and get_historical_data return None and raise
\* nothing whenever the status is not 200, whatever the body; get_historical_data
\* has then printed the raw body.
C1_NonOkReturnsNone ==
    \A op \in {"index_data", "get_stock_data", "get_historical_data"} :
        (Done(op) /\ response.status # 200) =>
            /\ outcome = ReturnNone
            /\ (op = "get_historical_data" => printed = <<response.body>>)

C1_Witness ==
    /\ Done("get_stock_data")
    /\ response.status = 503
    /\ response.body.fmt = "text"
    /\ outcome = ReturnNone

\* C2: a 200 response whose JSON body has no "info" section makes get_stock_data
\* return None, whatever the other sections hold.
C2_NoInfoReturnsNone ==
    (Done("get_stock_data") /\ response.status = 200 /\ IsJson(response.body)
        /\ "info" \notin DOMAIN response.body.obj)
    => outcome = ReturnNone

C2_Witness ==
    /\ Done("get_stock_data")
    /\ response.status = 200
    /\ IsJson(response.body)
    /\ DOMAIN response.body.obj = {"priceInfo", "preOpenMarket"}
    /\ "open" \notin DOMAIN response.body.obj.priceInfo
    /\ outcome = ReturnNone

\* what the server said, for a body of each format
ServerText(body) ==
    CASE body.fmt = "json" -> Get(body.obj, "showMessage")
      [] body.fmt = "text" -> body.text
      [] body.fmt = "csv" -> body.header[1]

IsTable14(body) == body.fmt = "csv" /\ Len(body.header) = 14

\* C3: a 200 response whose body is not the 14-column table (JSON or not, or a
\* table of another width) makes get_historical_data raise an error whose message
\* contains the server's text.
C3_FailureCarriesServerText ==
    (Done("get_historical_data") /\ response.status = 200 /\ ~IsTable14(response.body))
    => /\ outcome.kind = "raise"
       /\ Contains(outcome.msg, ServerText(response.body))

CanonicalFields ==
    {"symbol", "open", "dayHigh", "dayLow", "lastPrice", "previousClose", "change", "pChange",
     "52W_High", "52W_Low", "totalTradedVolume", "totalTradedValue", "perChange365d",
     "perChange30d", "last_updated_at"}

SourceFields ==
    {"symbol", "open", "dayHigh", "dayLow", "lastPrice", "previousClose", "change", "pChange",
     "yearHigh", "yearLow", "totalTradedVolume", "totalTradedValue", "perChange365d",
     "perChange30d"}

WellFormedSnapshot(body) ==
    /\ IsJson(body)
    /\ {"timestamp", "data"} \subseteq DOMAIN body.obj
    /\ \A i \in 1..Len(body.obj.data) :
          /\ SourceFields \subseteq DOMAIN body.obj.data[i]
          /\ (i > 1 => "meta" \in DOMAIN body.obj.data[i])

\* C4: on a 200 response index_data returns one element per datum, in the data
\* array's order, each with the canonical fields and the body's timestamp; the
\* first has no company_name and every later one has.
C4_SnapshotShape ==
    (Done("index_data") /\ response.status = 200) =>
        /\ (WellFormedSnapshot(response.body) => outcome.kind = "return")
        /\ (outcome.kind = "return" =>
              /\ Len(outcome.value) = Len(response.body.obj.data)
              /\ \A i \in 1..Len(outcome.value) :
                    /\ outcome.value[i].symbol = response.body.obj.data[i].symbol
                    /\ outcome.value[i].open = response.body.obj.data[i].open
                    /\ outcome.value[i].last_updated_at = response.body.obj.timestamp
                    /\ DOMAIN outcome.value[i] =
                          CanonicalFields \cup (IF i = 1 THEN {} ELSE {"company_name"}))

C4_Witness ==
    /\ Done("index_data")
    /\ response.status = 200
    /\ outcome.kind = "return"
    /\ Len(outcome.value) = 2
    /\ outcome.value[1].symbol = TC
    /\ outcome.value[2].symbol = NF
    /\ "meta" \in DOMAIN response.body.obj.data[1]
    /\ outcome.value[2].company_name = "Tata Co"

\* the number of symbols in the first n categories of an equity-master body
RECURSIVE SymbolsBefore(_, _)
SymbolsBefore(body, n) ==
    IF n = 0 THEN 0 ELSE SymbolsBefore(body, n - 1) + Len(body.val[body.keys[n]])

\* C5: get_indices returns the category lists one after the other, categories in
\* the body's key order and symbols in list order, nothing dropped or merged.
C5_FlattenInOrder ==
    (Done("get_indices") /\ IsJson(response.body)) =>
        /\ outcome.kind = "return"
        /\ Len(outcome.value) = SymbolsBefore(response.body, Len(response.body.keys))
        /\ \A n \in 1..Len(response.body.keys) :
              \A j \in 1..Len(response.body.val[response.body.keys[n]]) :
                  outcome.value[SymbolsBefore(response.body, n - 1) + j]
                      = response.body.val[response.body.keys[n]][j]

C5_Witness ==
    /\ Done("get_indices")
    /\ IsJson(response.body)
    /\ response.body.keys = <<"B", "A">>
    /\ response.body.val["B"] = <<"Y", "X">>
    /\ response.body.val["A"] = <<"Y">>
    /\ outcome = Return(<<"Y", "X", "Y">>)

\* the index name the exchange knows, for each spelling a caller may pass
Uppercased(index) ==
    CASE index = <<"n", "f">> -> <<"N", "F">>
      [] index = <<"N", "F">> -> <<"N", "F">>
      [] index = <<"n", " ", "f">> -> <<"N", " ", "F">>

Escaped(index) ==
    CASE index = <<"N", "F">> -> <<"N", "F">>
      [] index = <<"N", " ", "F">> -> <<"N", "%", "2", "0", "F">>

ListingRows(body) == IF IsJson(body) /\ "data" \in DOMAIN body.obj THEN body.obj.data ELSE <<>>

\* the rows of a listing that get_all_stocks must keep, as records
RECURSIVE Constituents(_, _)
Constituents(rows, name) ==
    IF rows = <<>> THEN <<>>
    ELSE (IF Head(rows).symbol = name THEN <<>>
          ELSE <<[stock_symbol |-> Head(rows).symbol,
                  company_name |-> IF "meta" \in DOMAIN Head(rows)
                                      /\ "companyName" \in DOMAIN Head(rows).meta
                                   THEN Head(rows).meta.companyName ELSE None]>>)
         \o Constituents(Tail(rows), name)

\* C6: get_all_stocks asks for the uppercased index and returns, in source order,
\* one record per row whose symbol is not the uppercased index name; a row without
\* meta gives company_name None.
C6_ConstituentsExceptIndex ==
    Done("get_all_stocks") =>
        /\ cur.url.index = Escaped(Uppercased(cur.index))
        /\ (/\ IsJson(response.body)
            /\ "data" \in DOMAIN response.body.obj
            /\ \A i \in 1..Len(response.body.obj.data) :
                  "symbol" \in DOMAIN response.body.obj.data[i])
           => outcome = Return(Constituents(response.body.obj.data, Uppercased(cur.index)))

C6_Witness ==
    /\ Done("get_all_stocks")
    /\ cur.index = <<"n", "f">>
    /\ Len(ListingRows(response.body)) = 2
    /\ response.body.obj.data[1] = [symbol |-> NF, meta |-> WithCompany]
    /\ response.body.obj.data[2] = [symbol |-> TC]
    /\ outcome = Return(<<[stock_symbol |-> TC, company_name |-> None]>>)

TableColumns ==
    <<"SYMBOL", "DATE", "SERIES", "OPEN", "HIGH", "LOW", "PREV_CLOSE", "LTP", "CLOSE", "VWAP",
      "52W_H", "52W_L", "VOLUME", "VALUE", "NO_OF_TRADES">>

\* the calendar date a well-formed day-month-year cell stands for
DateOf(cell) ==
    CASE cell = <<"0", "1", "-", "J", "a", "n", "-", "2", "0", "2", "3">>
            -> [t |-> "date", y |-> 2023, m |-> 1, d |-> 1]
      [] cell = <<"2", "8", "-", "F", "e", "b", "-", "2", "0", "2", "3">>
            -> [t |-> "date", y |-> 2023, m |-> 2, d |-> 28]

\* a 200 response carrying a 14-column table whose dates are day-month-year text
GoodTable ==
    /\ Done("get_historical_data")
    /\ response.status = 200
    /\ IsTable14(response.body)
    /\ \A i \in 1..Len(response.body.rows) : response.body.rows[i][1] \in {D1, D2}

SourceColumn(k) == [i \in 1..Len(response.body.rows) |-> response.body.rows[i][k]]

\* C7: from a 200 response with the 14 columns get_historical_data returns one row
\* per CSV row, in source order, under SYMBOL plus the 14 canonical names taken by
\* position whatever the header says; SYMBOL is the symbol asked for and DATE is the
\* parsed date (01-Jan-2023 is 2023-01-01).
C7_HistoricalTable ==
    GoodTable =>
        /\ outcome.kind = "return"
        /\ outcome.value.columns = TableColumns
        /\ Len(outcome.value.rows) = Len(response.body.rows)
        /\ \A i \in 1..Len(outcome.value.rows) :
              /\ DOMAIN outcome.value.rows[i] = Range(TableColumns)
              /\ outcome.value.rows[i]["SYMBOL"] = [t |-> "str", s |-> cur.symbol]
              /\ outcome.value.rows[i]["DATE"] = DateOf(response.body.rows[i][1])
              /\ outcome.value.rows[i]["SERIES"] = [t |-> "str", s |-> response.body.rows[i][2]]
              /\ \A k \in 3..14 :
                    (\A r \in 1..Len(response.body.rows) : SourceColumn(k)[r] = ToChars(100 + k))
                    => outcome.value.rows[i][TableColumns[k + 1]] = [t |-> "num", v |-> 100 + k]

C7_Witness ==
    /\ GoodTable
    /\ cur.symbol = <<"n", "f">>
    /\ response.body.header = OtherHeader
    /\ Len(response.body.rows) = 2
    /\ outcome.kind = "return"
    /\ outcome.value.rows[1]["DATE"] = [t |-> "date", y |-> 2023, m |-> 2, d |-> 28]
    /\ outcome.value.rows[2]["DATE"] = [t |-> "date", y |-> 2023, m |-> 1, d |-> 1]
    /\ outcome.value.rows[2]["SYMBOL"] = [t |-> "str", s |-> <<"n", "f">>]

Malformed(cell) == cell = <<"-">>

\* the number a well-formed numeric cell stands for (missing for an empty cell)
CellValue(cell, k) ==
    CASE cell = <<>> -> [t |-> "nan"]
      [] cell = <<"1", "0", "0">> -> [t |-> "num", v |-> 100]
      [] cell = <<"1", ",", "2", "3", "4">> -> [t |-> "num", v |-> 1234]
      [] OTHER -> [t |-> "num", v |-> 100 + k]

\* C8 as stated: in every returned table each of the twelve numeric fields is a
\* number, thousands separators removed, and a malformed cell in any of them is a
\* missing value, never text.
C8_AllNumericCoerced ==
    GoodTable =>
        /\ outcome.kind = "return"
        /\ \A i \in 1..Len(response.body.rows) : \A k \in 3..14 :
              outcome.value.rows[i][TableColumns[k + 1]] =
                  (IF Malformed(response.body.rows[i][k]) THEN [t |-> "nan"]
                   ELSE CellValue(response.body.rows[i][k], k))

\* C8 as amended: a malformed numeric cell (text that is neither a number nor
\* empty) never makes the call raise; a numeric column with no such cell is numbers
\* (separators removed, empty cells missing); a malformed cell is missing in VWAP,
\* where a cell with a separator in the same column is missing too, and in any
\* other numeric column it stays text, as do the other non-empty cells of that
\* column.
C8_NumericCoercion ==
    GoodTable =>
        /\ outcome.kind = "return"
        /\ \A i \in 1..Len(response.body.rows) : \A k \in 3..14 :
              LET cell == response.body.rows[i][k]
                  got == outcome.value.rows[i][TableColumns[k + 1]]
                  clean == \A r \in 1..Len(response.body.rows) : ~Malformed(SourceColumn(k)[r])
              IN  /\ clean => got = CellValue(cell, k)
                  /\ (~clean /\ TableColumns[k + 1] = "VWAP") =>
                        got = (IF cell = <<"1", "0", "0">> THEN [t |-> "num", v |-> 100]
                               ELSE [t |-> "nan"])
                  /\ (~clean /\ TableColumns[k + 1] # "VWAP") =>
                        got = (IF cell = <<>> THEN [t |-> "nan"] ELSE [t |-> "str", s |-> cell])

C8_Witness ==
    /\ GoodTable
    /\ Len(response.body.rows) = 2
    /\ response.body.rows[1][3] = <<"-">>
    /\ response.body.rows[2][3] = <<"1", ",", "2", "3", "4">>
    /\ outcome.kind = "return"
    /\ outcome.value.rows[1]["OPEN"] = [t |-> "str", s |-> <<"-">>]
    /\ outcome.value.rows[2]["OPEN"] = [t |-> "str", s |-> <<"1", ",", "2", "3", "4">>]
    /\ outcome.value.rows[1]["VWAP"] = [t |-> "num", v |-> 109]

QueryEndpoints == {"equity-master", "equity-stockIndices", "quote-equity", "historical/cm/equity"}

\* C9: construction issues one warm-up GET, before any query; every method call
\* started adds exactly one GET, on the one session and with the two fixed headers,
\* and nothing is sent again after a non-200 status, a parse failure or a transport
\* error: the GETs number one plus the calls started.
C9_OneGetPerCall ==
    /\ pc = "new" => (sent = <<>> /\ calls = 0)
    /\ pc = "failed" => calls = 0
    /\ pc # "new" =>
          /\ client = 1
          /\ Len(sent) = 1 + calls
          /\ sent[1].endpoint = "live-equity-market"
          /\ \A i \in 2..Len(sent) : sent[i].endpoint \in QueryEndpoints
          /\ \A i \in 1..Len(sent) :
                /\ sent[i].session = 1
                /\ sent[i].headers.xrw = "XMLHttpRequest"
                /\ sent[i].headers.ua = "Mozilla/5.0 (Windows NT 10.0; Win64; x64) AppleWebKit/537.36 (KHTML, like Gecko) Chrome/93.0.4577.82 Safari/537.36 Edg/93.0.961.52"

C9_Witness ==
    /\ pc = "idle"
    /\ calls = 2
    /\ Len(sent) = 3
    /\ sent[2].endpoint = "quote-equity"
    /\ sent[3].endpoint = "historical/cm/equity"
    /\ outcome.kind = "raise"
    /\ outcome.exc = "JSONDecodeError"

StockFields ==
    {"symbol", "company_name", "industry", "listingDate", "open_price", "last_price",
     "previous_close", "high_price", "low_price", "change", "pChange", "52w_high_date",
     "52w_high", "52w_low_date", "52w_low", "total_traded_volume", "total_buy_quantity",
     "total_sell_quantity", "last_update_time"}

HasInfo(body) == "info" \in DOMAIN body.obj /\ DOMAIN body.obj.info # {}

\* every section and field get_stock_data subscripts is there
RequiredPresent(obj) ==
    /\ {"symbol", "companyName"} \subseteq DOMAIN obj.info
    /\ "metadata" \in DOMAIN obj
    /\ {"listingDate", "lastUpdateTime"} \subseteq DOMAIN obj.metadata
    /\ "priceInfo" \in DOMAIN obj
    /\ {"open", "lastPrice", "previousClose", "intraDayHighLow", "change", "pChange",
        "weekHighLow"} \subseteq DOMAIN obj.priceInfo
    /\ {"max", "min"} \subseteq DOMAIN obj.priceInfo.intraDayHighLow
    /\ {"max", "maxDate", "min", "minDate"} \subseteq DOMAIN obj.priceInfo.weekHighLow
    /\ "preOpenMarket" \in DOMAIN obj
    /\ {"totalTradedVolume", "totalBuyQuantity", "totalSellQuantity"}
          \subseteq DOMAIN obj.preOpenMarket

FullRecord(out) ==
    /\ out.kind = "return"
    /\ DOMAIN out.value = StockFields
    /\ \A f \in {"symbol", "company_name", "listingDate", "last_update_time",
                 "52w_high_date", "52w_low_date"} : out.value[f] # None

LookupError(out) == out.kind = "raise" /\ out.exc = "KeyError"

\* the three outcomes C10 names, each with its condition
StatedOutcome ==
    IF response.status # 200 THEN outcome = ReturnNone
    ELSE IF ~IsJson(response.body) THEN FALSE
    ELSE IF ~HasInfo(response.body) THEN outcome = ReturnNone
    ELSE IF RequiredPresent(response.body.obj) THEN FullRecord(outcome)
    ELSE LookupError(outcome)

====
